---- MODULE Spec2Model ----
(***************************************************************************)
(* ZETA test (zetapy, dependencies.py): calcZetaOne and its helpers        *)
(* getSpikeT, getTempOffsetOne, getPseudoSpikeVectors and getZetaP.        *)
(*                                                                         *)
(* Times are integers: floating-point values are taken in exact           *)
(* arithmetic, counted in units of half a machine epsilon (see EpsUnits).  *)
(* Every function has a frame variable holding its arguments, its locals  *)
(* (with the names of the source) and its position; a raised exception is *)
(* the position "raised" with the exception's name in field exc.          *)
(***************************************************************************)
EXTENDS Integers, Sequences, FiniteSets, TLC

VARIABLES spikeT, tempOffset, pseudo, zetaP, calc, gumbel

vars == <<spikeT, tempOffset, pseudo, zetaP, calc, gumbel>>

\* A frame of a function that is not running in the specification at hand.
Idle == [pc |-> "idle"]

(***************************************************************************)
(* Bounds of the model.                                                    *)
(***************************************************************************)
\* getSpikeT specification: longest spike vector, longest event vector,
\* largest time value and largest window.
MaxSpikesT == 2
MaxTrialsT == 5
MaxTimeT == 3
MaxWinT == 3

(***************************************************************************)
(* Generic helpers (numpy primitives).                                     *)
(***************************************************************************)
SeqsUpTo(S, n) == UNION {[1..k -> S] : k \in 0..n}

\* np.sort on a vector of numbers.
NpSort(s) == SortSeq(s, LAMBDA a, b : a < b)

\* np.nan in a float buffer: a slot is << >> (nan) or <<v>> (the number v).
NaN == << >>

\* np.resize(a, n): the new array is filled with repeated copies of a.
NpResize(a, n) == [i \in 1..n |-> a[((i - 1) % Len(a)) + 1]]

(***************************************************************************)
(* getSpikeT (lines 268-296).                                              *)
(***************************************************************************)
\* Mutant of line 282: closed interval.
TrialSpikesClosed(vecSpikeTimes, dblStartT, dblStopT) ==
    LET sel == SelectSeq(vecSpikeTimes, LAMBDA s : s <= dblStopT /\ s >= dblStartT)
    IN  [i \in 1..Len(sel) |-> sel[i] - dblStartT]

\* line 282: the spikes strictly inside (dblStartT, dblStopT), made relative.
TrialSpikes(vecSpikeTimes, dblStartT, dblStopT) ==
    LET sel == SelectSeq(vecSpikeTimes, LAMBDA s : s < dblStopT /\ s > dblStartT)
    IN  [i \in 1..Len(sel) |-> sel[i] - dblStartT]

\* line 285: the last index to assign lies beyond the buffer.
NeedResize(intIdx, intTempSpikeNr, size) ==
    intTempSpikeNr > 0 /\ intIdx + intTempSpikeNr - 1 >= size

\* lines 272-274: the frame before the loop.
SpikeTEnter(vecSpikeTimes, vecEventTimes, dblUseMaxDur) ==
    [pc |-> IF Len(vecEventTimes) > 0 THEN "loop" ELSE "finish",
     exc |-> "none",
     vecSpikeTimes |-> vecSpikeTimes,
     vecEventTimes |-> vecEventTimes,
     dblUseMaxDur |-> dblUseMaxDur,
     vecSpikesInTrial |-> [i \in 1..(2 * Len(vecSpikeTimes)) |-> NaN],
     intIdx |-> 0,
     intTrial |-> 0,
     ret |-> << >>]

\* lines 277-288: one iteration of the loop over the trials.
SpikeTTrial(fr) ==
    LET dblStartT == fr.vecEventTimes[fr.intTrial + 1]
        dblStopT == dblStartT + fr.dblUseMaxDur
        vecTempSpikes == TrialSpikes(fr.vecSpikeTimes, dblStartT, dblStopT)
        intTempSpikeNr == Len(vecTempSpikes)
        old == fr.vecSpikesInTrial
        buf == IF NeedResize(fr.intIdx, intTempSpikeNr, Len(old))
               THEN NpResize(old, 2 * Len(old)) ELSE old
        more == fr.intTrial + 1 < Len(fr.vecEventTimes)
    IN  IF fr.intIdx + intTempSpikeNr > Len(buf)
        THEN [fr EXCEPT !.pc = "raised", !.exc = "IndexError"]
        ELSE [fr EXCEPT
                !.vecSpikesInTrial =
                    [i \in 1..Len(buf) |->
                        IF i > fr.intIdx /\ i <= fr.intIdx + intTempSpikeNr
                        THEN <<vecTempSpikes[i - fr.intIdx]>> ELSE buf[i]],
                !.intIdx = fr.intIdx + intTempSpikeNr,
                !.intTrial = fr.intTrial + 1,
                !.pc = IF more THEN "loop" ELSE "finish"]

\* lines 290-296: cut the unused tail, sort, add the start and end entries.
SpikeTFinish(fr) ==
    LET used == [i \in 1..fr.intIdx |-> fr.vecSpikesInTrial[i][1]]
    IN  [fr EXCEPT !.pc = "return",
                   !.ret = <<0>> \o NpSort(used) \o <<fr.dblUseMaxDur>>]

RECURSIVE SpikeTRun(_)
SpikeTRun(fr) ==
    IF fr.pc = "loop" THEN SpikeTRun(SpikeTTrial(fr))
    ELSE IF fr.pc = "finish" THEN SpikeTFinish(fr)
    ELSE fr

\* The whole call: a frame at "return" (with ret) or "raised" (with exc).
GetSpikeT(vecSpikeTimes, vecEventTimes, dblUseMaxDur) ==
    SpikeTRun(SpikeTEnter(vecSpikeTimes, vecEventTimes, dblUseMaxDur))

(***************************************************************************)
(* Specification of getSpikeT alone: any spike vector, any event vector.   *)
(***************************************************************************)
InitSpikeT ==
    /\ \E S \in SeqsUpTo(0..MaxTimeT, MaxSpikesT),
          E \in SeqsUpTo(0..1, MaxTrialsT),
          W \in 1..MaxWinT :
            spikeT = SpikeTEnter(S, E, W)
    /\ tempOffset = Idle
    /\ pseudo = Idle
    /\ zetaP = Idle
    /\ calc = Idle
    /\ gumbel = Idle

SpikeTLoop ==
    /\ spikeT.pc = "loop"
    /\ spikeT' = SpikeTTrial(spikeT)
    /\ UNCHANGED <<tempOffset, pseudo, zetaP, calc, gumbel>>

SpikeTReturn ==
    /\ spikeT.pc = "finish"
    /\ spikeT' = SpikeTFinish(spikeT)
    /\ UNCHANGED <<tempOffset, pseudo, zetaP, calc, gumbel>>

NextSpikeT == SpikeTLoop \/ SpikeTReturn

SpecSpikeT == InitSpikeT /\ [][NextSpikeT]_vars

\* How often the value v is due in the output: once per trial and spike with
\* onset < s < onset + W and s - onset = v.
DueCount(fr, v) ==
    Cardinality({p \in (1..Len(fr.vecEventTimes)) \X (1..Len(fr.vecSpikeTimes)) :
        LET onset == fr.vecEventTimes[p[1]]
            s == fr.vecSpikeTimes[p[2]]
        IN  onset < s /\ s < onset + fr.dblUseMaxDur /\ s - onset = v})

CountIn(s, v) == Cardinality({i \in 1..Len(s) : s[i] = v})

\* C4: getSpikeT never raises, and returns the sentinel 0, then the ascending
\* multiset union over the trials of the in-window relative spike times (each
\* exactly as often as it is due, all strictly inside (0, W)), then the
\* sentinel W.
C4_SpikeTExact ==
    /\ spikeT.pc # "raised"
    /\ spikeT.pc = "return" =>
        LET r == spikeT.ret
            n == Len(r)
            mid == SubSeq(r, 2, n - 1)
        IN  /\ n >= 2
            /\ r[1] = 0
            /\ r[n] = spikeT.dblUseMaxDur
            /\ \A i \in 1..(Len(mid) - 1) : mid[i] <= mid[i + 1]
            /\ \A i \in 1..Len(mid) : mid[i] > 0 /\ mid[i] < spikeT.dblUseMaxDur
            /\ \A v \in 0..(MaxTimeT + MaxWinT) : CountIn(mid, v) = DueCount(spikeT, v)
            /\ Len(mid) = spikeT.intIdx

\* Witness of C4: overlapping trials that each hold all spikes made the
\* buffer grow, a spike sat exactly on an onset and one on onset + W.
C4_Witness ==
    /\ spikeT.pc = "return"
    /\ Len(spikeT.vecSpikesInTrial) > 2 * Len(spikeT.vecSpikeTimes)
    /\ Len(spikeT.ret) > 2 + 2 * Len(spikeT.vecSpikeTimes)
    /\ \E i \in 1..Len(spikeT.vecSpikeTimes), j \in 1..Len(spikeT.vecEventTimes) :
         spikeT.vecSpikeTimes[i] = spikeT.vecEventTimes[j]
    /\ \E i \in 1..Len(spikeT.vecSpikeTimes), j \in 1..Len(spikeT.vecEventTimes) :
         spikeT.vecSpikeTimes[i] = spikeT.vecEventTimes[j] + spikeT.dblUseMaxDur

(***************************************************************************)
(* Exact rational numbers <<num, den>>, den > 0, in lowest terms: the      *)
(* fractions and deviations of the curves.                                 *)
(***************************************************************************)
AbsInt(a) == IF a < 0 THEN -a ELSE a

RECURSIVE GCD(_, _)
GCD(a, b) == IF b = 0 THEN a ELSE GCD(b, a % b)

Rat(n, d) ==
    LET g == GCD(AbsInt(n), d)
    IN  IF n = 0 THEN <<0, 1>> ELSE <<n \div g, d \div g>>

RSub(a, b) == Rat(a[1] * b[2] - b[1] * a[2], a[2] * b[2])
RAdd(a, b) == Rat(a[1] * b[2] + b[1] * a[2], a[2] * b[2])
RLess(a, b) == a[1] * b[2] < b[1] * a[2]
RAbs(a) == <<AbsInt(a[1]), a[2]>>
RDivInt(a, k) == Rat(a[1], a[2] * k)

RECURSIVE RSum(_)
RSum(s) == IF s = << >> THEN <<0, 1>> ELSE RAdd(Head(s), RSum(Tail(s)))

\* np.mean of a non-empty vector.
NpMean(s) == RDivInt(RSum(s), Len(s))

\* x - np.mean(x), elementwise.
SubtractValue(s, m) == [i \in 1..Len(s) |-> RSub(s[i], m)]
SubtractMean(s) == SubtractValue(s, NpMean(s))

(***************************************************************************)
(* getTempOffsetOne (lines 234-265).                                       *)
(***************************************************************************)
\* np.finfo(float64).eps in the time unit, which is half an epsilon.
EpsUnits == 2

RECURSIVE SortedSeqOf(_)
SortedSeqOf(S) ==
    IF S = {} THEN << >>
    ELSE LET m == CHOOSE x \in S : \A y \in S : x <= y
         IN  <<m>> \o SortedSeqOf(S \ {m})

\* np.unique(s, return_index=True): the sorted unique values and, for each,
\* the (0-based) index of its first occurrence.
NpUnique(s) ==
    LET vals == SortedSeqOf({s[i] : i \in 1..Len(s)})
    IN  [vals |-> vals,
         idx |-> [i \in 1..Len(vals) |->
                    (CHOOSE j \in 1..Len(s) :
                        s[j] = vals[i] /\ \A l \in 1..(j - 1) : s[l] # vals[i]) - 1]]

\* lines 241-242: the values whose first occurrences lie more than one apart.
NotUnique(vecSpikesInTrial, vecIdx) ==
    LET ind == SelectSeq([i \in 1..Len(vecIdx) |-> i],
                         LAMBDA i : i < Len(vecIdx) /\ vecIdx[i + 1] - vecIdx[i] > 1)
    IN  [i \in 1..Len(ind) |-> vecSpikesInTrial[vecIdx[ind[i]] + 1]]

\* line 249: dblUniqueOffset*(np.arange(k) - k/2 - 1), entry j of k.
DupOffset(j, k) == (EpsUnits * (2 * j - k - 2)) \div 2

\* lines 238-242 on the windowed list st that getSpikeT returned (a frame).
OffsetEnterWith(vecSpikeTimes, vecEventTimes, dblUseMaxDur, st, u) ==
    [pc |-> IF st.pc = "raised" THEN "raised"
            ELSE IF Len(NotUnique(st.ret, u.idx)) > 0 THEN "dedup" ELSE "curve",
     exc |-> st.exc,
     vecSpikeTimes |-> vecSpikeTimes,
     vecEventTimes |-> vecEventTimes,
     dblUseMaxDur |-> dblUseMaxDur,
     vecSpikesInTrial |-> st.ret,
     vecThisSpikeTimes |-> u.vals,
     vecNotUnique |-> NotUnique(st.ret, u.idx),
     intDup |-> 0,
     vecThisSpikeFracs |-> << >>,
     vecThisFracLinear |-> << >>,
     vecThisDeviation |-> << >>]

OffsetEnterOn(vecSpikeTimes, vecEventTimes, dblUseMaxDur, st) ==
    OffsetEnterWith(vecSpikeTimes, vecEventTimes, dblUseMaxDur, st, NpUnique(st.ret))

\* lines 237-242.
OffsetEnter(vecSpikeTimes, vecEventTimes, dblUseMaxDur) ==
    OffsetEnterOn(vecSpikeTimes, vecEventTimes, dblUseMaxDur,
                  GetSpikeT(vecSpikeTimes, vecEventTimes, dblUseMaxDur))

\* lines 246-249: one iteration of the loop over the duplicated values.
OffsetDedup(fr) ==
    LET dblNotUnique == fr.vecNotUnique[fr.intDup + 1]
        a == fr.vecSpikesInTrial
        k == Cardinality({i \in 1..Len(a) : a[i] = dblNotUnique})
        rank(i) == Cardinality({l \in 1..(i - 1) : a[l] = dblNotUnique})
    IN  [fr EXCEPT
            !.vecSpikesInTrial =
                [i \in 1..Len(a) |->
                    IF a[i] = dblNotUnique THEN a[i] + DupOffset(rank(i), k) ELSE a[i]],
            !.intDup = fr.intDup + 1,
            !.pc = IF fr.intDup + 1 < Len(fr.vecNotUnique) THEN "dedup" ELSE "unique"]

\* lines 251-252.
OffsetUnique(fr) ==
    [fr EXCEPT !.vecThisSpikeTimes = NpUnique(fr.vecSpikesInTrial).vals,
               !.pc = "curve"]

\* line 262: the difference of the fractions and the linear fractions.
FracDifference(fracs, lin) == [i \in 1..Len(fracs) |-> RSub(fracs[i], lin[i])]

\* Mutant of line 263: the deviation is returned without centring.
CentreNot(dev) == dev

\* line 263: vecThisDeviation - np.mean(vecThisDeviation).
Centre(dev) == SubtractMean(dev)

CurveOf(fracs, lin) ==
    [vecThisSpikeFracs |-> fracs,
     vecThisFracLinear |-> lin,
     vecThisDeviation |-> Centre(FracDifference(fracs, lin))]

\* lines 254-263: fractions i/n, linear fractions t/W, centred difference.
Curve(vecThisSpikeTimes, dblUseMaxDur) ==
    CurveOf([i \in 1..Len(vecThisSpikeTimes) |-> Rat(i, Len(vecThisSpikeTimes))],
            [i \in 1..Len(vecThisSpikeTimes) |-> Rat(vecThisSpikeTimes[i], dblUseMaxDur)])

OffsetCurveWith(fr, c) ==
    [fr EXCEPT !.vecThisSpikeFracs = c.vecThisSpikeFracs,
               !.vecThisFracLinear = c.vecThisFracLinear,
               !.vecThisDeviation = c.vecThisDeviation,
               !.pc = "return"]

\* lines 254-265.
OffsetCurve(fr) == OffsetCurveWith(fr, Curve(fr.vecThisSpikeTimes, fr.dblUseMaxDur))

RECURSIVE OffsetRun(_)
OffsetRun(fr) ==
    IF fr.pc = "dedup" THEN OffsetRun(OffsetDedup(fr))
    ELSE IF fr.pc = "unique" THEN OffsetRun(OffsetUnique(fr))
    ELSE IF fr.pc = "curve" THEN OffsetCurve(fr)
    ELSE fr

\* The whole call: a frame at "return" or "raised".
GetTempOffsetOne(vecSpikeTimes, vecEventTimes, dblUseMaxDur) ==
    OffsetRun(OffsetEnter(vecSpikeTimes, vecEventTimes, dblUseMaxDur))

(***************************************************************************)
(* Specification of getTempOffsetOne alone. Spike and event times lie on   *)
(* a grid that is coarse against the machine epsilon.                      *)
(***************************************************************************)
\* The grid step in time units (30 epsilon).
Grid == 4 * 15

\* Longest spike vector and event vector of this specification.
MaxSpikesO == 3
MaxTrialsO == 2

InitOffset ==
    /\ \E S \in SeqsUpTo({Grid, 2 * Grid}, MaxSpikesO),
          E \in SeqsUpTo({0, Grid}, MaxTrialsO),
          W \in {2 * Grid, 3 * Grid} :
            tempOffset = OffsetEnter(S, E, W)
    /\ spikeT = Idle
    /\ pseudo = Idle
    /\ zetaP = Idle
    /\ calc = Idle
    /\ gumbel = Idle

OffsetDedupStep ==
    /\ tempOffset.pc = "dedup"
    /\ tempOffset' = OffsetDedup(tempOffset)
    /\ UNCHANGED <<spikeT, pseudo, zetaP, calc, gumbel>>

OffsetUniqueStep ==
    /\ tempOffset.pc = "unique"
    /\ tempOffset' = OffsetUnique(tempOffset)
    /\ UNCHANGED <<spikeT, pseudo, zetaP, calc, gumbel>>

OffsetCurveStep ==
    /\ tempOffset.pc = "curve"
    /\ tempOffset' = OffsetCurve(tempOffset)
    /\ UNCHANGED <<spikeT, pseudo, zetaP, calc, gumbel>>

NextOffset == OffsetDedupStep \/ OffsetUniqueStep \/ OffsetCurveStep

SpecOffset == InitOffset /\ [][NextOffset]_vars

\* The windowed spike list of the running call, as getSpikeT returned it.
Windowed(fr) == GetSpikeT(fr.vecSpikeTimes, fr.vecEventTimes, fr.dblUseMaxDur).ret

\* C5: on return, every group of k >= 2 identical windowed values v has k
\* distinct unique times within one epsilon of v, the duplicates keep their
\* rank order, and the curve has one point per windowed value (sentinels
\* included).
C5_DuplicatesWithinOneEps ==
    tempOffset.pc = "return" =>
        LET orig == Windowed(tempOffset)
            a == tempOffset.vecSpikesInTrial
            u == tempOffset.vecThisSpikeTimes
        IN  /\ Len(u) = Len(orig)
            /\ \A i \in 1..(Len(a) - 1) : orig[i] = orig[i + 1] => a[i] < a[i + 1]
            /\ \A p \in 1..Len(orig) :
                 LET v == orig[p]
                     k == CountIn(orig, v)
                 IN  k >= 2 =>
                       Cardinality({i \in 1..Len(u) :
                           AbsInt(u[i] - v) <= EpsUnits}) = k

\* A run of C5's case: a group of two identical windowed values was offset.
C5_Witness ==
    /\ tempOffset.pc = "return"
    /\ \E p \in 1..Len(Windowed(tempOffset)) :
         CountIn(Windowed(tempOffset), Windowed(tempOffset)[p]) = 2

(***************************************************************************)
(* getPseudoSpikeVectors (lines 299-392), boolDiscardEdges left at its     *)
(* default.                                                                *)
(***************************************************************************)
\* Python's None for a sample index (indices are >= 0).
None == -1

\* line 299: the default of the keyword argument; no caller passes another.
boolDiscardEdges == FALSE

\* findfirst (lines 395-401): the (0-based) index of the first TRUE of the
\* boolean vector indArray, or None.
FindFirst(indArray) ==
    IF \E i \in 1..Len(indArray) : indArray[i]
    THEN (CHOOSE i \in 1..Len(indArray) :
            indArray[i] /\ \A l \in 1..(i - 1) : ~indArray[l]) - 1
    ELSE None

\* np.arange(a, b + 1) as a vector.
Arange(a, b) == [i \in 1..(b - a + 1) |-> a + i - 1]

RECURSIVE Flatten(_)
Flatten(cell) == IF cell = << >> THEN << >> ELSE Head(cell) \o Flatten(Tail(cell))

\* lines 302-314: the frame before the loop.
PseudoEnter(vecSpikeTimes, vecEventTimes, dblWindowDur) ==
    [pc |-> IF Len(vecEventTimes) > 0 THEN "loop" ELSE "finish",
     exc |-> "none",
     vecSpikeTimes |-> NpSort(vecSpikeTimes),
     vecEventTimes |-> NpSort(vecEventTimes),
     dblWindowDur |-> dblWindowDur,
     intTrial |-> 0,
     cellPseudoSpikeT |-> << >>,
     cellUseSamples |-> << >>,   \* the sample indices behind cellPseudoSpikeT
     vecPseudoEventT |-> [i \in 1..Len(vecEventTimes) |-> NaN],
     dblPseudoEventT |-> 0,
     intLastUsedSample |-> 0,
     intFirstSample |-> None,
     dblPseudoT0 |-> 0,
     vecPseudoSpikeTimes |-> << >>]

\* lines 332-341: the eligible samples intStartSample..intEndSample within
\* the spike vector, widened at the first and at the last trial.
UseRange(intStartSample, intEndSample, intTrial, intTrials, intSamples) ==
    LET lo == IF intStartSample < 0 THEN 0 ELSE intStartSample
        hi == IF intEndSample > intSamples - 1 THEN intSamples - 1 ELSE intEndSample
    IN  IF hi < lo THEN << >>
        ELSE IF intTrial = 0 /\ ~boolDiscardEdges THEN Arange(0, hi)
        ELSE IF intTrial = intTrials - 1 /\ ~boolDiscardEdges THEN Arange(lo, intSamples - 1)
        ELSE Arange(lo, hi)

\* lines 322-341 on the two findfirst results s0 and e0; [empty |-> TRUE]
\* stands for np.empty(0), a float array.
EligibleOf(s0, e0, intTrial, intTrials, intSamples) ==
    IF s0 = None \/ (e0 # None /\ s0 > e0)
    THEN [empty |-> TRUE, idx |-> << >>]
    ELSE [empty |-> FALSE,
          idx |-> UseRange(s0, IF e0 = None THEN s0 ELSE e0,
                           intTrial, intTrials, intSamples)]

\* lines 319-341: the samples of the trial at dblEventT, before the overlap
\* is removed.
EligibleSamples(vecSpikeTimes, dblEventT, dblWindowDur, intTrial, intTrials) ==
    EligibleOf(FindFirst([i \in 1..Len(vecSpikeTimes) |-> vecSpikeTimes[i] >= dblEventT]),
               FindFirst([i \in 1..Len(vecSpikeTimes) |->
                              vecSpikeTimes[i] > dblEventT + dblWindowDur]),
               intTrial, intTrials, Len(vecSpikeTimes))

\* line 351: the window is longer than the gap to the previous event.
Overlaps(dblWindowDur, gap) == dblWindowDur > gap

\* lines 360-372 on the samples and the cursor of the trial.
PseudoAssign(fr, dblEventT, vecUseSamples, cursor) ==
    [fr EXCEPT
        !.dblPseudoEventT = cursor,
        !.intLastUsedSample = IF Len(vecUseSamples) = 0 THEN @
                              ELSE vecUseSamples[Len(vecUseSamples)],
        !.intFirstSample = IF @ = None /\ Len(vecUseSamples) > 0 THEN vecUseSamples[1] ELSE @,
        !.dblPseudoT0 = IF fr.intFirstSample = None /\ Len(vecUseSamples) > 0
                        THEN cursor ELSE @,
        !.cellPseudoSpikeT =
            Append(@, [i \in 1..Len(vecUseSamples) |->
                        fr.vecSpikeTimes[vecUseSamples[i] + 1] - dblEventT + cursor]),
        !.cellUseSamples = Append(@, vecUseSamples),
        !.vecPseudoEventT = [@ EXCEPT ![fr.intTrial + 1] = <<cursor>>],
        !.intTrial = fr.intTrial + 1,
        !.pc = IF fr.intTrial + 1 < Len(fr.vecEventTimes) THEN "loop" ELSE "finish"]

\* lines 344-372 on the samples el of the trial. Indexing the spike vector
\* with np.empty(0), a float array, raises IndexError (line 344).
PseudoTrialWith(fr, dblEventT, el, overlap, gap) ==
    IF el.empty
    THEN [fr EXCEPT !.pc = "raised", !.exc = "IndexError"]
    ELSE PseudoAssign(fr, dblEventT,
            IF overlap
            THEN SelectSeq(el.idx, LAMBDA i : ~(i <= fr.intLastUsedSample))
            ELSE el.idx,
            IF fr.intTrial = 0 THEN 0
            ELSE IF overlap THEN fr.dblPseudoEventT + gap
            ELSE fr.dblPseudoEventT + fr.dblWindowDur)

PseudoTrialAt(fr, dblEventT, gap) ==
    PseudoTrialWith(fr, dblEventT,
        EligibleSamples(fr.vecSpikeTimes, dblEventT, fr.dblWindowDur,
                        fr.intTrial, Len(fr.vecEventTimes)),
        fr.intTrial > 0 /\ Overlaps(fr.dblWindowDur, gap), gap)

\* lines 317-372: one iteration of the loop over the trials.
PseudoTrial(fr) ==
    PseudoTrialAt(fr, fr.vecEventTimes[fr.intTrial + 1],
        IF fr.intTrial = 0 THEN 0
        ELSE fr.vecEventTimes[fr.intTrial + 1] - fr.vecEventTimes[fr.intTrial])

\* lines 375-380: the spikes before the first used sample.
AddBeginning(fr, cell) ==
    LET S == fr.vecSpikeTimes
        first == fr.intFirstSample
    IN  IF ~boolDiscardEdges /\ first # None /\ first > 0
        THEN [spikes |-> Append(cell.spikes,
                    [i \in 1..first |->
                        S[i] - S[1] + fr.dblPseudoT0 - (S[first + 1] - S[first])
                            - (S[first] - S[1])]),
              samples |-> Append(cell.samples, Arange(0, first - 1))]
        ELSE cell

\* lines 383-388: the spikes from the first one beyond the last window on.
AddEnd(fr, cell, dblEventT, last) ==
    IF ~boolDiscardEdges /\ last # None /\ Len(fr.vecSpikeTimes) - 1 > last
    THEN [spikes |-> Append(cell.spikes,
                [i \in 1..(Len(fr.vecSpikeTimes) - last) |->
                    fr.vecSpikeTimes[last + i] - dblEventT + fr.dblPseudoEventT
                        + fr.dblWindowDur]),
          samples |-> Append(cell.samples, Arange(last, Len(fr.vecSpikeTimes) - 1))]
    ELSE cell

PseudoRecombine(fr, cell, last) ==
    [fr EXCEPT !.cellPseudoSpikeT = cell.spikes,
               !.cellUseSamples = cell.samples,
               !.intLastUsedSample = last,
               !.vecPseudoSpikeTimes = NpSort(Flatten(cell.spikes)),
               !.pc = "return"]

PseudoFinishAt(fr, dblEventT, last) ==
    PseudoRecombine(fr,
        AddEnd(fr, AddBeginning(fr, [spikes |-> fr.cellPseudoSpikeT,
                                     samples |-> fr.cellUseSamples]),
               dblEventT, last),
        last)

\* lines 374-392: add the beginning, add the end, recombine. With no event,
\* vecEventTimes[-1] raises IndexError (line 384).
PseudoFinish(fr) ==
    IF Len(fr.vecEventTimes) = 0
    THEN [fr EXCEPT !.pc = "raised", !.exc = "IndexError"]
    ELSE PseudoFinishAt(fr, fr.vecEventTimes[Len(fr.vecEventTimes)],
            FindFirst([i \in 1..Len(fr.vecSpikeTimes) |->
                fr.vecSpikeTimes[i] > fr.vecEventTimes[Len(fr.vecEventTimes)] + fr.dblWindowDur]))

RECURSIVE PseudoRun(_)
PseudoRun(fr) ==
    IF fr.pc = "loop" THEN PseudoRun(PseudoTrial(fr))
    ELSE IF fr.pc = "finish" THEN PseudoFinish(fr)
    ELSE fr

\* The whole call: a frame at "return" or "raised".
GetPseudoSpikeVectors(vecSpikeTimes, vecEventTimes, dblWindowDur) ==
    PseudoRun(PseudoEnter(vecSpikeTimes, vecEventTimes, dblWindowDur))

\* The returned vecPseudoEventT as plain numbers.
PseudoEvents(fr) == [i \in 1..Len(fr.vecPseudoEventT) |-> fr.vecPseudoEventT[i][1]]

(***************************************************************************)
(* Specification of getPseudoSpikeVectors alone.                           *)
(***************************************************************************)
MaxSpikesP == 3
MaxTrialsP == 3
MaxTimeP == 4
MaxWinP == 2

InitPseudo ==
    /\ \E S \in SeqsUpTo(0..MaxTimeP, MaxSpikesP),
          E \in SeqsUpTo(0..MaxTimeP, MaxTrialsP),
          W \in 1..MaxWinP :
            pseudo = PseudoEnter(S, E, W)
    /\ spikeT = Idle
    /\ tempOffset = Idle
    /\ zetaP = Idle
    /\ calc = Idle
    /\ gumbel = Idle

PseudoLoop ==
    /\ pseudo.pc = "loop"
    /\ pseudo' = PseudoTrial(pseudo)
    /\ UNCHANGED <<spikeT, tempOffset, zetaP, calc, gumbel>>

PseudoReturn ==
    /\ pseudo.pc = "finish"
    /\ pseudo' = PseudoFinish(pseudo)
    /\ UNCHANGED <<spikeT, tempOffset, zetaP, calc, gumbel>>

NextPseudo == PseudoLoop \/ PseudoReturn

SpecPseudo == InitPseudo /\ [][NextPseudo]_vars

\* C6: in the returned pseudo-spike sequence no input spike index appears
\* twice: the fragments of the trials and of the add-beginning and add-end
\* steps use every sample index at most once.
C6_NoIndexTwice ==
    pseudo.pc = "return" =>
        LET used == Flatten(pseudo.cellUseSamples)
        IN  \A i, j \in 1..Len(used) : i # j => used[i] # used[j]

\* C10: the call returns one pseudo-event time per trial, 0 for trial 0 and
\* then advancing by the real gap when it is shorter than the window and by
\* the window otherwise, whether or not the trial has eligible spikes.
C10_CursorRule ==
    /\ (pseudo.pc = "raised" => Len(pseudo.vecEventTimes) = 0)
    /\ pseudo.pc = "return" =>
        LET pe == PseudoEvents(pseudo)
            ev == pseudo.vecEventTimes
        IN  /\ Len(pe) = Len(ev)
            /\ pe[1] = 0
            /\ \A i \in 2..Len(pe) :
                 pe[i] - pe[i - 1] =
                    IF ev[i] - ev[i - 1] < pseudo.dblWindowDur
                    THEN ev[i] - ev[i - 1] ELSE pseudo.dblWindowDur

(***************************************************************************)
(* getZetaP (lines 135-168). Observed and null values are finite exact     *)
(* rationals, so np.isnan and np.isinf are false. A p-value is a record:   *)
(* kind "exact" with the rational val (direct quantile mode), or kind      *)
(* "gumbel", the call getGumbel(mean, var, x) of lines 162-163 left        *)
(* unevaluated on the null values and x. The z-score -norm.ppf(p/2) is a   *)
(* function of p alone and is carried by p.                                *)
(***************************************************************************)
RDiv(a, b) ==
    IF b[1] < 0 THEN Rat(-(a[1] * b[2]), -(a[2] * b[1]))
    ELSE Rat(a[1] * b[2], a[2] * b[1])

RLeq(a, b) == a[1] * b[2] <= b[1] * a[2]

\* Sorted vector of the distinct rationals of s: np.sort(np.unique(s)).
RECURSIVE RSortedSeqOf(_)
RSortedSeqOf(S) ==
    IF S = {} THEN << >>
    ELSE LET m == CHOOSE x \in S : \A y \in S : RLeq(x, y)
         IN  <<m>> \o RSortedSeqOf(S \ {m})

RUnique(s) == RSortedSeqOf({s[i] : i \in 1..Len(s)})

\* np.interp(d, xp, 1..M) for xp[1] <= d <= xp[M], xp strictly increasing.
NpInterp(d, xp) ==
    LET M == Len(xp)
    IN  IF d = xp[M] THEN <<M, 1>>
        ELSE LET i == CHOOSE i \in 1..(M - 1) : RLeq(xp[i], d) /\ RLess(d, xp[i + 1])
             IN  RAdd(<<i, 1>>, RDiv(RSub(d, xp[i]), RSub(xp[i + 1], xp[i])))

\* Mutant of lines 148-154: a value above the largest null value gets rank 0.
QuantileRankAboveZero(d, vecMaxRandD) ==
    LET M == Len(vecMaxRandD)
    IN  IF RLess(d, vecMaxRandD[1]) THEN <<0, 1>>
        ELSE IF RLess(vecMaxRandD[M], d) THEN <<0, 1>>
        ELSE NpInterp(d, vecMaxRandD)

\* lines 148-154: dblValue, the rank of d among the sorted null values.
QuantileRank(d, vecMaxRandD) ==
    LET M == Len(vecMaxRandD)
    IN  IF RLess(d, vecMaxRandD[1]) THEN <<0, 1>>
        ELSE IF RLess(vecMaxRandD[M], d) THEN <<M, 1>>
        ELSE NpInterp(d, vecMaxRandD)

ZetaPEnterWith(arrMaxD, u, boolDirectQuantile) ==
    [pc |-> IF ~boolDirectQuantile THEN "return"
            ELSE IF Len(arrMaxD) > 0 THEN "loop" ELSE "return",
     exc |-> "none",
     arrMaxD |-> arrMaxD,
     vecMaxRandD |-> u,
     boolDirectQuantile |-> boolDirectQuantile,
     i |-> 0,
     arrZetaP |-> IF boolDirectQuantile
                  THEN [k \in 1..Len(arrMaxD) |-> [kind |-> "nan", val |-> <<0, 1>>]]
                  ELSE [k \in 1..Len(arrMaxD) |-> [kind |-> "gumbel", val |-> arrMaxD[k]]]]

\* lines 138-146 and 160-163: the frame before the loop over arrMaxD. In
\* Gumbel mode the call is over after the single call of getGumbel.
ZetaPEnter(arrMaxD, vecMaxRandD, boolDirectQuantile) ==
    ZetaPEnterWith(arrMaxD, RUnique(vecMaxRandD), boolDirectQuantile)

\* line 156 on the rank dblValue of entry i.
ZetaPAssign(fr, dblValue) ==
    [fr EXCEPT !.arrZetaP[fr.i + 1] =
                    [kind |-> "exact",
                     val |-> RSub(<<1, 1>>, RDivInt(dblValue, 1 + Len(fr.vecMaxRandD)))],
               !.i = fr.i + 1,
               !.pc = IF fr.i + 1 < Len(fr.arrMaxD) THEN "loop" ELSE "return"]

\* lines 147-156: one iteration. np.min of an empty array raises ValueError.
ZetaPQuantile(fr) ==
    IF Len(fr.vecMaxRandD) = 0
    THEN [fr EXCEPT !.pc = "raised", !.exc = "ValueError"]
    ELSE ZetaPAssign(fr, QuantileRank(fr.arrMaxD[fr.i + 1], fr.vecMaxRandD))

RECURSIVE ZetaPRun(_)
ZetaPRun(fr) == IF fr.pc = "loop" THEN ZetaPRun(ZetaPQuantile(fr)) ELSE fr

\* The whole call: a frame at "return" or "raised".
GetZetaP(arrMaxD, vecMaxRandD, boolDirectQuantile) ==
    ZetaPRun(ZetaPEnter(arrMaxD, vecMaxRandD, boolDirectQuantile))

(***************************************************************************)
(* Specification of getZetaP alone, in direct quantile mode on a vector of *)
(* observed values.                                                        *)
(***************************************************************************)
MaxNull == 3
MaxObs == 2
MaxVal == 5

InitZetaP ==
    /\ \E null \in SeqsUpTo(0..MaxVal, MaxNull), obs \in SeqsUpTo(0..MaxVal, MaxObs) :
         /\ Len(null) >= 1
         /\ zetaP = ZetaPEnter([k \in 1..Len(obs) |-> <<obs[k], 1>>],
                               [k \in 1..Len(null) |-> <<null[k], 1>>], TRUE)
    /\ spikeT = Idle
    /\ tempOffset = Idle
    /\ pseudo = Idle
    /\ calc = Idle
    /\ gumbel = Idle

ZetaPLoop ==
    /\ zetaP.pc = "loop"
    /\ zetaP' = ZetaPQuantile(zetaP)
    /\ UNCHANGED <<spikeT, tempOffset, pseudo, calc, gumbel>>

NextZetaP == ZetaPLoop

SpecZetaP == InitZetaP /\ [][NextZetaP]_vars

\* C7: in direct quantile mode, for the same null maxima, a strictly larger
\* observed value never gets a larger p-value.
C7_QuantileMonotone ==
    zetaP.pc = "return" =>
        \A a, b \in 1..Len(zetaP.arrMaxD) :
            RLess(zetaP.arrMaxD[a], zetaP.arrMaxD[b]) =>
                RLeq(zetaP.arrZetaP[b].val, zetaP.arrZetaP[a].val)

\* Witness of C7: two observed values, one interpolated strictly inside the
\* null range and one above its maximum, with a strictly smaller p-value.
C7_Witness ==
    /\ zetaP.pc = "return"
    /\ Len(zetaP.arrMaxD) = 2
    /\ Len(zetaP.vecMaxRandD) >= 2
    /\ RLess(zetaP.vecMaxRandD[1], zetaP.arrMaxD[1])
    /\ RLess(zetaP.arrMaxD[1], zetaP.vecMaxRandD[Len(zetaP.vecMaxRandD)])
    /\ RLess(zetaP.vecMaxRandD[Len(zetaP.vecMaxRandD)], zetaP.arrMaxD[2])
    /\ RLess(zetaP.arrZetaP[2].val, zetaP.arrZetaP[1].val)
    /\ zetaP.arrZetaP[1].val[2] > 1 + Len(zetaP.vecMaxRandD)

(***************************************************************************)
(* calcZetaOne (lines 9-132). An array is [shape, data]: a 1-D array has   *)
(* shape <<n>> and data the vector; a 2-D array has shape <<r, c>> and     *)
(* data the vector of its r rows. A field of the result that is None is    *)
(* Unset, one that is set to v is <<v>>. dblJitterSize is a rational.      *)
(***************************************************************************)
Unset == << >>

\* A number as a p-value or z-score record.
Exact(r) == [kind |-> "exact", val |-> r]

\* lines 19-38: the pre-allocated result.
DefaultResult ==
    [vecSpikeT |-> Unset,
     vecRealDeviation |-> Unset,
     vecRealFrac |-> Unset,
     vecRealFracLinear |-> Unset,
     cellRandTime |-> Unset,
     cellRandDeviation |-> Unset,
     dblZetaP |-> Exact(<<1, 1>>),
     dblZETA |-> Exact(<<0, 1>>),
     intZETAIdx |-> Unset]

\* arr.T of a 2-D array.
Transpose(arr) ==
    [shape |-> <<arr.shape[2], arr.shape[1]>>,
     data |-> [j \in 1..arr.shape[2] |-> [i \in 1..arr.shape[1] |-> arr.data[i][j]]]]

\* np.reshape(arr, (-1, 1)) of a 1-D array.
ReshapeColumn(arr) ==
    [shape |-> <<arr.shape[1], 1>>,
     data |-> [i \in 1..arr.shape[1] |-> <<arr.data[i]>>]]

\* Mutant of lines 47-57: the two orientation tests are exchanged.
OrientEventsSwapped(arr) ==
    IF Len(arr.shape) > 1
    THEN IF arr.shape[1] < 3 THEN [exc |-> "none", arr |-> arr]
         ELSE IF arr.shape[2] < 3 THEN [exc |-> "none", arr |-> Transpose(arr)]
         ELSE [exc |-> "Exception", arr |-> arr]
    ELSE [exc |-> "none", arr |-> ReshapeColumn(arr)]

\* lines 47-57: the orientation of arrEventTimes, or the input error.
OrientEvents(arr) ==
    IF Len(arr.shape) > 1
    THEN IF arr.shape[2] < 3 THEN [exc |-> "none", arr |-> arr]
         ELSE IF arr.shape[1] < 3 THEN [exc |-> "none", arr |-> Transpose(arr)]
         ELSE [exc |-> "Exception", arr |-> arr]
    ELSE [exc |-> "none", arr |-> ReshapeColumn(arr)]

\* Mutant of lines 66 and 82: fewer than 2.
TooFewBelowTwo(n) == n < 2

\* lines 66 and 82: fewer than 3 spikes, or points of the curve.
TooFew(n) == n < 3

\* line 64: the spikes strictly between dblStartT and dblStopT.
KeepSpikes(vecSpikeTimes, dblStartT, dblStopT) ==
    SelectSeq(vecSpikeTimes, LAMBDA s : s > dblStartT /\ s < dblStopT)

SeqMin(s) == CHOOSE x \in {s[i] : i \in 1..Len(s)} : \A i \in 1..Len(s) : x <= s[i]
SeqMax(s) == CHOOSE x \in {s[i] : i \in 1..Len(s)} : \A i \in 1..Len(s) : x >= s[i]

\* np.max(np.abs(x)).
MaxAbs(s) == CHOOSE x \in {RAbs(s[i]) : i \in 1..Len(s)} : \A i \in 1..Len(s) : RLeq(RAbs(s[i]), x)

FirstAt(s, m) == (CHOOSE i \in 1..Len(s) : RAbs(s[i]) = m /\ \A l \in 1..(i - 1) : RAbs(s[l]) # m) - 1

\* np.argmax(np.abs(x)): 0-based, the first maximum.
ArgMaxAbs(s) == FirstAt(s, MaxAbs(s))

\* line 100: dblJitterSize * np.linspace(-W, W, num=intTrials), entry i of
\* 1..intTrials. np.linspace with num = 1 is [-W].
JitterPerTrial(dblJitterSize, dblUseMaxDur, intTrials, i) ==
    IF intTrials = 1 THEN (-dblUseMaxDur * dblJitterSize[1]) \div dblJitterSize[2]
    ELSE (dblJitterSize[1] * dblUseMaxDur * (2 * (i - 1) - (intTrials - 1)))
            \div (dblJitterSize[2] * (intTrials - 1))

\* The frame on entry (lines 9-38).
CalcEnter(vecSpikeTimes, arrEventTimes, dblUseMaxDur, intResampNum, boolDirectQuantile, dblJitterSize, boolStitch) ==
    [pc |-> "Validate",
     exc |-> "none",
     at |-> "none",                       \* the step an exception escaped from
     argSpikeTimes |-> vecSpikeTimes,     \* the arguments as passed
     argEventTimes |-> arrEventTimes,
     vecSpikeTimes |-> vecSpikeTimes,
     arrEventTimes |-> arrEventTimes,
     dblUseMaxDur |-> dblUseMaxDur,
     intResampNum |-> intResampNum,
     boolDirectQuantile |-> boolDirectQuantile,
     dblJitterSize |-> dblJitterSize,
     boolStitch |-> boolStitch,
     vecEventT |-> << >>,
     dblStartT |-> 0,
     dblStopT |-> 0,
     vecPseudoSpikeTimes |-> << >>,
     vecPseudoEventT |-> << >>,
     vecSpikeT |-> << >>,
     vecRealDeviation |-> << >>,
     vecRealFrac |-> << >>,
     vecRealFracLinear |-> << >>,
     intZETAIdx |-> None,
     dblMaxD |-> <<0, 1>>,
     cellRandTime |-> << >>,
     cellRandDeviation |-> << >>,
     vecMaxRandD |-> << >>,
     matJitterPerTrial |-> << >>,
     intResampling |-> 0,
     ranResample |-> FALSE,               \* lines 93-116 were entered
     ranSignificance |-> FALSE,           \* line 119 was entered
     dZETA |-> DefaultResult]

Raise(fr, exc) == [fr EXCEPT !.pc = "raised", !.exc = exc, !.at = fr.pc]

CalcValidateWith(fr, o) ==
    IF o.exc # "none" THEN Raise(fr, o.exc)
    ELSE [fr EXCEPT !.arrEventTimes = o.arr, !.pc = "Select"]

\* lines 45-57.
CalcValidate(fr) == CalcValidateWith(fr, OrientEvents(fr.arrEventTimes))

\* line 59: arrEventTimes[:, 0]; with no column, IndexError.
CalcSelect(fr) ==
    IF fr.arrEventTimes.shape[2] = 0 THEN Raise(fr, "IndexError")
    ELSE [fr EXCEPT
            !.vecEventT = [i \in 1..fr.arrEventTimes.shape[1] |-> fr.arrEventTimes.data[i][1]],
            !.pc = "ReduceSpikes"]

\* lines 64-69 on the window found.
CalcReduceTo(fr, dblStartT, dblStopT, kept) ==
    [fr EXCEPT !.dblStartT = dblStartT,
               !.dblStopT = dblStopT,
               !.vecSpikeTimes = kept,
               !.pc = IF TooFew(Len(kept)) THEN "Done" ELSE "Stitch"]

CalcReduceIn(fr, dblStartT, dblStopT) ==
    CalcReduceTo(fr, dblStartT, dblStopT, KeepSpikes(fr.vecSpikeTimes, dblStartT, dblStopT))

\* lines 61-63 with pad = dblUseMaxDur*5*dblJitterSize.
CalcReduceBy(fr, pad) ==
    CalcReduceIn(fr,
        IF fr.vecSpikeTimes[1] > SeqMin(fr.vecEventT) - pad
        THEN fr.vecSpikeTimes[1] ELSE SeqMin(fr.vecEventT) - pad,
        SeqMax(fr.vecEventT) + pad)

\* lines 61-69. np.min of no event raises ValueError, vecSpikeTimes[0] of no
\* spike raises IndexError.
CalcReduce(fr) ==
    IF Len(fr.vecEventT) = 0 THEN Raise(fr, "ValueError")
    ELSE IF Len(fr.vecSpikeTimes) = 0 THEN Raise(fr, "IndexError")
    ELSE CalcReduceBy(fr, (fr.dblUseMaxDur * 5 * fr.dblJitterSize[1]) \div fr.dblJitterSize[2])

CalcStitchWith(fr, ps) ==
    IF ps.pc = "raised" THEN Raise(fr, ps.exc)
    ELSE [fr EXCEPT !.vecPseudoSpikeTimes = ps.vecPseudoSpikeTimes,
                    !.vecPseudoEventT = PseudoEvents(ps),
                    !.pc = "RealCurve"]

\* lines 72-76.
CalcStitch(fr) ==
    IF ~fr.boolStitch
    THEN [fr EXCEPT !.vecPseudoSpikeTimes = fr.vecSpikeTimes,
                    !.vecPseudoEventT = fr.vecEventT,
                    !.pc = "RealCurve"]
    ELSE CalcStitchWith(fr,
            GetPseudoSpikeVectors(fr.vecSpikeTimes, fr.vecEventT, fr.dblUseMaxDur))

CalcRealCurveWith(fr, o) ==
    IF o.pc = "raised" THEN Raise(fr, o.exc)
    ELSE [fr EXCEPT !.vecRealDeviation = o.vecThisDeviation,
                    !.vecRealFrac = o.vecThisSpikeFracs,
                    !.vecRealFracLinear = o.vecThisFracLinear,
                    !.vecSpikeT = o.vecThisSpikeTimes,
                    !.pc = "CheckCurve"]

\* line 80.
CalcRealCurve(fr) ==
    CalcRealCurveWith(fr,
        GetTempOffsetOne(fr.vecPseudoSpikeTimes, fr.vecPseudoEventT, fr.dblUseMaxDur))

\* lines 87-102 on the centred deviation and the index of its maximum.
CalcStatistic(fr, dev, intZETAIdx) ==
    [fr EXCEPT
        !.vecRealDeviation = dev,
        !.intZETAIdx = intZETAIdx,
        !.dblMaxD = RAbs(dev[intZETAIdx + 1]),
        !.cellRandTime = << >>,
        !.cellRandDeviation = << >>,
        !.vecMaxRandD = [r \in 1..fr.intResampNum |-> NaN],
        !.matJitterPerTrial = [r \in 1..fr.intResampNum |-> NaN],
        !.intResampling = 0,
        !.ranResample = TRUE,
        !.pc = IF fr.intResampNum > 0 THEN "Jitter" ELSE "Significance"]

CalcCentred(fr, dev) == CalcStatistic(fr, dev, ArgMaxAbs(dev))

\* lines 82-102: the early exit, or the observed statistic and the
\* pre-allocation of the bootstraps.
CalcCheckCurve(fr) ==
    IF TooFew(Len(fr.vecRealDeviation)) THEN [fr EXCEPT !.pc = "Done"]
    ELSE CalcCentred(fr, SubtractMean(fr.vecRealDeviation))

\* Mutant of line 104: every trial is given the jitter value of perm[1].
CalcJitterRepeated(fr, perm) ==
    [fr EXCEPT
        !.matJitterPerTrial[fr.intResampling + 1] =
            <<[i \in 1..Len(fr.vecPseudoEventT) |->
                JitterPerTrial(fr.dblJitterSize, fr.dblUseMaxDur,
                               Len(fr.vecPseudoEventT), perm[1])]>>,
        !.intResampling = IF fr.intResampling + 1 = fr.intResampNum THEN 0
                          ELSE fr.intResampling + 1,
        !.pc = IF fr.intResampling + 1 = fr.intResampNum THEN "Resample" ELSE "Jitter"]

\* lines 103-104: one iteration; perm is np.random.permutation(intTrials).
CalcJitter(fr, perm) ==
    [fr EXCEPT
        !.matJitterPerTrial[fr.intResampling + 1] =
            <<[i \in 1..Len(fr.vecPseudoEventT) |->
                JitterPerTrial(fr.dblJitterSize, fr.dblUseMaxDur,
                               Len(fr.vecPseudoEventT), perm[i])]>>,
        !.intResampling = IF fr.intResampling + 1 = fr.intResampNum THEN 0
                          ELSE fr.intResampling + 1,
        !.pc = IF fr.intResampling + 1 = fr.intResampNum THEN "Resample" ELSE "Jitter"]

\* lines 114-116 on the curve times and its centred deviation.
CalcAssign(fr, vecThisSpikeTimes, dev) ==
    [fr EXCEPT !.cellRandTime = Append(@, vecThisSpikeTimes),
               !.cellRandDeviation = Append(@, dev),
               !.vecMaxRandD[fr.intResampling + 1] = <<MaxAbs(dev)>>,
               !.intResampling = fr.intResampling + 1,
               !.pc = IF fr.intResampling + 1 = fr.intResampNum
                      THEN "Significance" ELSE "Resample"]

CalcResampleWith(fr, o) ==
    IF o.pc = "raised" THEN Raise(fr, o.exc)
    ELSE CalcAssign(fr, o.vecThisSpikeTimes, SubtractMean(o.vecThisDeviation))

\* lines 106-116: one iteration.
CalcResample(fr) ==
    CalcResampleWith(fr,
        GetTempOffsetOne(fr.vecPseudoSpikeTimes,
            [i \in 1..Len(fr.vecPseudoEventT) |->
                fr.vecPseudoEventT[i] + fr.matJitterPerTrial[fr.intResampling + 1][1][i]],
            fr.dblUseMaxDur))

\* lines 121-132 on the returned p-value.
CalcResult(fr, dblZetaP) ==
    [fr EXCEPT
        !.ranSignificance = TRUE,
        !.dZETA = [vecSpikeT |-> <<fr.vecSpikeT>>,
                   vecRealDeviation |-> <<fr.vecRealDeviation>>,
                   vecRealFrac |-> <<fr.vecRealFrac>>,
                   vecRealFracLinear |-> <<fr.vecRealFracLinear>>,
                   cellRandTime |-> <<fr.cellRandTime>>,
                   cellRandDeviation |-> <<fr.cellRandDeviation>>,
                   dblZetaP |-> dblZetaP,
                   dblZETA |-> [kind |-> IF dblZetaP.kind = "exact"
                                         THEN "minusNormPpfOfHalfP" ELSE "gumbelZ",
                                val |-> dblZetaP.val],
                   intZETAIdx |-> <<fr.intZETAIdx>>],
        !.pc = "Done"]

CalcSignificanceWith(fr, z) ==
    IF z.pc = "raised" THEN [Raise(fr, z.exc) EXCEPT !.ranSignificance = TRUE]
    ELSE CalcResult(fr, z.arrZetaP[1])

\* lines 119-132.
CalcSignificance(fr) ==
    CalcSignificanceWith(fr,
        GetZetaP(<<fr.dblMaxD>>,
                 [r \in 1..fr.intResampNum |-> fr.vecMaxRandD[r][1]],
                 fr.boolDirectQuantile))

(***************************************************************************)
(* Specification of calcZetaOne: the orchestrator on any input of its      *)
(* interface. Spike trains are ascending; times lie on the grid.           *)
(***************************************************************************)
\* Longest spike train, largest spike time (in grid steps), longest 1-D
\* event vector, largest dimension of a 2-D event array, largest window (in
\* grid steps) and largest resample count.
MaxSpikesC == 4
MaxTimeC == 5
MaxTrialsC == 2
MaxDim == 3
MaxWinC == 2
MaxResamp == 2

SpikeTrains ==
    {s \in SeqsUpTo({Grid * k : k \in 1..MaxTimeC}, MaxSpikesC) :
        \A i \in 1..(Len(s) - 1) : s[i] < s[i + 1]}

\* 1-D event vectors, and r-by-c event arrays whose rows are trials two grid
\* steps apart and whose columns lie one grid step apart.
EventArrays ==
    {[shape |-> <<Len(v)>>, data |-> v] : v \in SeqsUpTo({Grid, 3 * Grid}, MaxTrialsC)}
    \cup {[shape |-> <<r, c>>,
           data |-> [i \in 1..r |-> [j \in 1..c |-> Grid * (2 * i + j - 2)]]] :
            r \in 0..MaxDim, c \in 0..MaxDim}

Init ==
    /\ \E S \in SpikeTrains, A \in EventArrays, w \in 1..MaxWinC, N \in 0..MaxResamp,
          dq \in BOOLEAN, js \in {<<1, 5>>, <<1, 1>>}, st \in BOOLEAN :
            calc = CalcEnter(S, A, w * Grid, N, dq, js, st)
    /\ spikeT = Idle
    /\ tempOffset = Idle
    /\ pseudo = Idle
    /\ zetaP = Idle
    /\ gumbel = Idle

Validate ==
    /\ calc.pc = "Validate"
    /\ calc' = CalcValidate(calc)
    /\ UNCHANGED <<spikeT, tempOffset, pseudo, zetaP, gumbel>>

SelectOnsets ==
    /\ calc.pc = "Select"
    /\ calc' = CalcSelect(calc)
    /\ UNCHANGED <<spikeT, tempOffset, pseudo, zetaP, gumbel>>

ReduceSpikes ==
    /\ calc.pc = "ReduceSpikes"
    /\ calc' = CalcReduce(calc)
    /\ UNCHANGED <<spikeT, tempOffset, pseudo, zetaP, gumbel>>

Stitch ==
    /\ calc.pc = "Stitch"
    /\ calc' = CalcStitch(calc)
    /\ UNCHANGED <<spikeT, tempOffset, pseudo, zetaP, gumbel>>

RealCurve ==
    /\ calc.pc = "RealCurve"
    /\ calc' = CalcRealCurve(calc)
    /\ UNCHANGED <<spikeT, tempOffset, pseudo, zetaP, gumbel>>

CheckCurve ==
    /\ calc.pc = "CheckCurve"
    /\ calc' = CalcCheckCurve(calc)
    /\ UNCHANGED <<spikeT, tempOffset, pseudo, zetaP, gumbel>>

Jitter ==
    /\ calc.pc = "Jitter"
    /\ \E perm \in Permutations(1..Len(calc.vecPseudoEventT)) :
         calc' = CalcJitter(calc, perm)
    /\ UNCHANGED <<spikeT, tempOffset, pseudo, zetaP, gumbel>>

Resample ==
    /\ calc.pc = "Resample"
    /\ calc' = CalcResample(calc)
    /\ UNCHANGED <<spikeT, tempOffset, pseudo, zetaP, gumbel>>

Significance ==
    /\ calc.pc = "Significance"
    /\ calc' = CalcSignificance(calc)
    /\ UNCHANGED <<spikeT, tempOffset, pseudo, zetaP, gumbel>>

Next ==
    \/ Validate
    \/ SelectOnsets
    \/ ReduceSpikes
    \/ Stitch
    \/ RealCurve
    \/ CheckCurve
    \/ Jitter
    \/ Resample
    \/ Significance

Spec == Init /\ [][Next]_vars

\* The positions after the global windowing, and after the check of the curve.
AfterReduce == {"Stitch", "RealCurve", "CheckCurve", "Jitter", "Resample", "Significance"}
AfterCheck == {"Jitter", "Resample", "Significance"}

\* C1: with fewer than 3 spikes after the global windowing, or fewer than 3
\* points in the real deviation curve, the call has returned the default
\* result (p = 1, z = 0, every curve field unset) and neither the resampling
\* nor the significance step has run; the run does not go on.
C1_EarlyExitDefaults ==
    /\ calc.pc \in AfterReduce => Len(calc.vecSpikeTimes) >= 3
    /\ calc.pc \in AfterCheck => Len(calc.vecRealDeviation) >= 3
    /\ (calc.pc = "Done" /\ (Len(calc.vecSpikeTimes) < 3 \/ Len(calc.vecRealDeviation) < 3)) =>
         /\ calc.dZETA.dblZetaP = Exact(<<1, 1>>)
         /\ calc.dZETA.dblZETA = Exact(<<0, 1>>)
         /\ calc.dZETA.vecSpikeT = Unset
         /\ calc.dZETA.vecRealDeviation = Unset
         /\ calc.dZETA.vecRealFrac = Unset
         /\ calc.dZETA.vecRealFracLinear = Unset
         /\ calc.dZETA.cellRandTime = Unset
         /\ calc.dZETA.cellRandDeviation = Unset
         /\ calc.dZETA.intZETAIdx = Unset
         /\ ~calc.ranResample
         /\ ~calc.ranSignificance

\* Witness of C1: three or more spikes passed the global windowing, the real
\* curve came out with its two sentinels only, and the call is over.
C1_Witness ==
    /\ calc.pc = "Done"
    /\ Len(calc.vecSpikeTimes) >= 3
    /\ Len(calc.vecRealDeviation) = 2
    /\ calc.intResampNum > 0
    /\ calc.dZETA = DefaultResult

BothAtLeastThree(arr) == Len(arr.shape) = 2 /\ arr.shape[1] >= 3 /\ arr.shape[2] >= 3

\* The orientation the specification prescribes for an array that is not
\* rejected: 1-D to T-by-1, second dimension < 3 unchanged, else transposed.
Oriented(arr) ==
    IF Len(arr.shape) = 1 THEN ReshapeColumn(arr)
    ELSE IF arr.shape[2] < 3 THEN arr
    ELSE Transpose(arr)

FirstColumn(arr) == [i \in 1..arr.shape[1] |-> arr.data[i][1]]

ValidEvents(arr) ==
    /\ ~BothAtLeastThree(arr)
    /\ Oriented(arr).shape[1] >= 1
    /\ Oriented(arr).shape[2] \in 1..2

\* C3: on an input of the interface (events of valid shape) no exception
\* other than the input-shape error escapes calcZetaOne.
C3_OnlyShapeErrorEscapes ==
    (ValidEvents(calc.argEventTimes) /\ calc.pc = "raised") => calc.exc = "Exception"

\* C8: the deviation returned by getTempOffsetOne, the vecRealDeviation of
\* the result and every entry of cellRandDeviation sum to exactly 0, and the
\* four arrays returned by getTempOffsetOne have the same length (so do each
\* resampled curve and its times).
C8_CurvesCentred ==
    /\ calc.pc \in {"CheckCurve"} \cup AfterCheck =>
         /\ RSum(calc.vecRealDeviation) = <<0, 1>>
         /\ Len(calc.vecRealDeviation) = Len(calc.vecRealFrac)
         /\ Len(calc.vecRealDeviation) = Len(calc.vecRealFracLinear)
         /\ Len(calc.vecRealDeviation) = Len(calc.vecSpikeT)
    /\ calc.pc # "idle" =>
         \A r \in 1..Len(calc.cellRandDeviation) :
            /\ RSum(calc.cellRandDeviation[r]) = <<0, 1>>
            /\ Len(calc.cellRandDeviation[r]) = Len(calc.cellRandTime[r])
    /\ (calc.pc = "Done" /\ calc.dZETA.vecRealDeviation # Unset) =>
         /\ RSum(calc.dZETA.vecRealDeviation[1]) = <<0, 1>>
         /\ \A r \in 1..Len(calc.dZETA.cellRandDeviation[1]) :
                RSum(calc.dZETA.cellRandDeviation[1][r]) = <<0, 1>>

\* Witness of C8: a result with a real curve that is not flat and two
\* resampled curves, one of them not flat.
C8_Witness ==
    /\ calc.pc = "Done"
    /\ calc.dZETA.vecRealDeviation # Unset
    /\ \E i \in 1..Len(calc.dZETA.vecRealDeviation[1]) :
           calc.dZETA.vecRealDeviation[1][i] # <<0, 1>>
    /\ Len(calc.dZETA.cellRandDeviation[1]) = 2
    /\ \E r \in 1..2 : \E i \in 1..Len(calc.dZETA.cellRandDeviation[1][r]) :
           calc.dZETA.cellRandDeviation[1][r][i] # <<0, 1>>

\* C9: once the global windowing has run, the spikes kept are exactly those
\* of the closed interval [dblStartT, dblStopT].
C9_KeepsClosedInterval ==
    calc.pc \in AfterReduce \cup {"Done"} =>
        calc.vecSpikeTimes =
            SelectSeq(calc.argSpikeTimes,
                      LAMBDA t : t >= calc.dblStartT /\ t <= calc.dblStopT)

\* The resampling loops (lines 103-116) are over: the significance step is
\* due or has run.
LoopsDone(fr) == fr.pc = "Significance" \/ (fr.pc \in {"Done", "raised"} /\ fr.ranSignificance)

\* Column r of matJitterPerTrial holds every value of the fixed vector
\* dblJitterSize * linspace(-W, W, T) exactly once.
IsPermutedJitter(fr, r) ==
    /\ fr.matJitterPerTrial[r] # NaN
    /\ Len(fr.matJitterPerTrial[r][1]) = Len(fr.vecPseudoEventT)
    /\ \A k \in 1..Len(fr.vecPseudoEventT) :
         Cardinality({i \in 1..Len(fr.vecPseudoEventT) :
            fr.matJitterPerTrial[r][1][i] =
                JitterPerTrial(fr.dblJitterSize, fr.dblUseMaxDur,
                               Len(fr.vecPseudoEventT), k)}) = 1

\* C11: once the jitter of all N resamples is drawn, every column of
\* matJitterPerTrial is a permutation of the one vector
\* dblJitterSize * linspace(-W, W, T); and when the resampling loop is over,
\* every one of the N slots of vecMaxRandD is written and cellRandTime and
\* cellRandDeviation hold exactly N entries.
C11_JitterPermutedSlotsFilled ==
    /\ (calc.pc = "Resample" \/ (calc.pc # "idle" /\ LoopsDone(calc))) =>
         \A r \in 1..calc.intResampNum : IsPermutedJitter(calc, r)
    /\ (calc.pc # "idle" /\ LoopsDone(calc)) =>
         /\ Len(calc.vecMaxRandD) = calc.intResampNum
         /\ \A r \in 1..calc.intResampNum : calc.vecMaxRandD[r] # NaN
         /\ Len(calc.cellRandTime) = calc.intResampNum
         /\ Len(calc.cellRandDeviation) = calc.intResampNum

\* Witness of C11: two resamples over three trials drew different
\* permutations, and the loop is over.
C11_Witness ==
    /\ calc.pc = "Significance"
    /\ calc.intResampNum = 2
    /\ Len(calc.vecPseudoEventT) = 3
    /\ calc.matJitterPerTrial[1] # calc.matJitterPerTrial[2]
    /\ calc.vecMaxRandD[1] # NaN /\ calc.vecMaxRandD[2] # NaN

(***************************************************************************)
(* getGumbel (lines 171-231). Lines 206-209 map the mean dblE and the      *)
(* variance dblV > 0 onto the parameters dblBeta > 0 and dblMode, and      *)
(* every such pair comes from some dblE and dblV: the frame starts from    *)
(* dblMode and dblBeta. exp and norm.ppf stay symbolic: a p-value is       *)
(* "oneMinusCdf" of the standardised distance t = (x - dblMode)/dblBeta,   *)
(* i.e. 1 - exp(-exp(-t)), or "exp" of an exponent; a z-score is "inf" or  *)
(* "minusNormPpfOfHalfP" of the p-value it was computed from.              *)
(***************************************************************************)
\* lines 212-222: in float64, 1 - exp(-exp(-t)) is 0, and the z-score
\* infinite, from t = 37.5 on (exp(-37.5) < 2^-54 < exp(-37.25)).
Saturation == <<75, 2>>

\* line 212: (x - dblMode) / dblBeta.
Standardised(dblMode, dblBeta, x) == RDiv(RSub(x, dblMode), dblBeta)

\* line 226: np.isinf(dblZ).
IsInf(dblZ) == dblZ.kind = "inf"

\* line 227: dblMode - arrX[i] / dblBeta.
TailExponent(dblMode, dblBeta, x) == RSub(dblMode, RDiv(x, dblBeta))

\* lines 212-222 on the standardised distance t of one value.
GumbelP(t) == [kind |-> "oneMinusCdf", val |-> t]

GumbelZ(t) ==
    IF RLeq(Saturation, t) THEN [kind |-> "inf", p |-> GumbelP(t)]
    ELSE [kind |-> "minusNormPpfOfHalfP", p |-> GumbelP(t)]

\* lines 206-222: the frame before the loop over arrZ.
GumbelEnter(dblMode, dblBeta, arrX) ==
    [pc |-> IF Len(arrX) > 0 THEN "loop" ELSE "return",
     dblMode |-> dblMode,
     dblBeta |-> dblBeta,
     arrX |-> arrX,
     arrP |-> [k \in 1..Len(arrX) |-> GumbelP(Standardised(dblMode, dblBeta, arrX[k]))],
     arrZ |-> [k \in 1..Len(arrX) |-> GumbelZ(Standardised(dblMode, dblBeta, arrX[k]))],
     i |-> 0]

\* lines 227-228 on the fallback p-value of entry i.
GumbelAssign(fr, p) ==
    [fr EXCEPT !.arrP[fr.i + 1] = p,
               !.arrZ[fr.i + 1] = [kind |-> "minusNormPpfOfHalfP", p |-> p]]

GumbelAdvance(fr) ==
    [fr EXCEPT !.i = fr.i + 1,
               !.pc = IF fr.i + 1 < Len(fr.arrX) THEN "loop" ELSE "return"]

\* lines 225-228: one iteration.
GumbelFallback(fr) ==
    IF IsInf(fr.arrZ[fr.i + 1])
    THEN GumbelAdvance(GumbelAssign(fr,
            [kind |-> "exp", val |-> TailExponent(fr.dblMode, fr.dblBeta, fr.arrX[fr.i + 1])]))
    ELSE GumbelAdvance(fr)

(***************************************************************************)
(* Specification of getGumbel on integer parameters and observed values    *)
(* on both sides of the saturation.                                        *)
(***************************************************************************)
\* Largest mode, largest beta, largest observed value (in steps of 25) and
\* longest arrX.
MaxMode == 2
MaxBeta == 3
MaxX == 5
MaxObsG == 2

InitGumbel ==
    /\ \E m \in 0..MaxMode, b \in 1..MaxBeta, X \in SeqsUpTo({25 * k : k \in 0..MaxX}, MaxObsG) :
         gumbel = GumbelEnter(<<m, 1>>, <<b, 1>>, [k \in 1..Len(X) |-> <<X[k], 1>>])
    /\ spikeT = Idle
    /\ tempOffset = Idle
    /\ pseudo = Idle
    /\ zetaP = Idle
    /\ calc = Idle

GumbelLoop ==
    /\ gumbel.pc = "loop"
    /\ gumbel' = GumbelFallback(gumbel)
    /\ UNCHANGED <<spikeT, tempOffset, pseudo, zetaP, calc>>

NextGumbel == GumbelLoop

SpecGumbel == InitGumbel /\ [][NextGumbel]_vars

\* C12: on return, every observed value whose z-score came out infinite has
\* the p-value exp((dblMode - x) / dblBeta), the difference divided as a
\* whole by dblBeta, and its z-score is recomputed from that p-value.
C12_TailApproximation ==
    gumbel.pc = "return" =>
        \A k \in 1..Len(gumbel.arrX) :
            RLeq(Saturation, Standardised(gumbel.dblMode, gumbel.dblBeta, gumbel.arrX[k])) =>
                /\ gumbel.arrP[k] =
                     [kind |-> "exp",
                      val |-> RDiv(RSub(gumbel.dblMode, gumbel.arrX[k]), gumbel.dblBeta)]
                /\ gumbel.arrZ[k] = [kind |-> "minusNormPpfOfHalfP", p |-> gumbel.arrP[k]]
====
